---- MODULE Spec2Model ----
(***************************************************************************)
(* DataIntegrityChecker (src/main.py): load a CSV file, then report        *)
(* missing values, duplicate rows and outliers.                            *)
(*                                                                         *)
(* Two drivers are modelled over the same methods:                         *)
(*   Spec / SpecE2E : the script's __main__ block, which calls run_checks  *)
(*                    and prints a top-level message if it raises;         *)
(*   SpecAPI        : a client that calls the four public methods of one   *)
(*                    checker object in any order.                         *)
(***************************************************************************)
EXTENDS Integers, Sequences, FiniteSets

\* ------------------------------------------------------------------ bounds

\* Largest number of data rows of a CSV file (general specifications).
MaxRows == 3

\* Largest number of method calls a client makes (SpecAPI).
MaxCalls == 2

\* Largest number of data rows of a CSV file given to such a client.
MaxApiRows == 1

\* Number of data rows of the end-to-end example table.
ExampleRows == 5

\* The header row of the CSV files considered: two columns.
Header == <<"A", "B">>

\* The texts a field of each column may hold: empty, a number, or a word.
ColumnTokens == <<{"", "1", "2", "a"}, {"", "1", "a"}>>

NumTokens == {"1", "2"}

\* Anomaly scores the fitted forest may give a row (lower = more anomalous).
ScoreLevels == {0, 1}

\* IsolationForest(contamination=0.01): the threshold is the 1st percentile.
ContaminationPct == 1

\* ------------------------------------------------------------- the table

NCols == Len(Header)

ToNumber(tok) == CASE tok = "1" -> 1 [] tok = "2" -> 2 [] OTHER -> 0

NaN == [k |-> "nan", s |-> "", v |-> 0]
NumCell(n) == [k |-> "num", s |-> "", v |-> n]
StrCell(tok) == [k |-> "str", s |-> tok, v |-> 0]

\* self.data = None
None == [kind |-> "None", dtypes |-> <<>>, rows |-> <<>>]

\* The files a path may lead to.
FailureKinds == {"absent", "empty", "malformed", "denied"}

CsvFile(rows) == [kind |-> "csv", lines |-> rows]

FailFile(kind) == [kind |-> kind, lines |-> <<>>]

FileRows == {r \in [1..NCols -> UNION {ColumnTokens[c] : c \in 1..NCols}] :
                \A c \in 1..NCols : r[c] \in ColumnTokens[c]}

\* The path leads to nothing readable, or to a CSV file of at most n rows.
IsFile(f, n) ==
    \/ \E kd \in FailureKinds : f = FailFile(kd)
    \/ \E m \in 0..n : \E rows \in [1..m -> FileRows] : f = CsvFile(rows)

\* pandas' type inference for column c of the parsed lines: a column with no
\* row is object; a column whose fields are all numbers is int64; numbers and
\* empty fields give float64 (empty = NaN); anything else is object.
infer_dtype(lines, c) ==
    IF Len(lines) = 0 THEN "object"
    ELSE IF \A i \in 1..Len(lines) : lines[i][c] \in NumTokens THEN "int64"
    ELSE IF \A i \in 1..Len(lines) : lines[i][c] \in NumTokens \cup {""}
         THEN "float64"
    ELSE "object"

parse_cell(tok, dtype) ==
    IF tok = "" THEN NaN
    ELSE IF dtype = "object" THEN StrCell(tok)
    ELSE NumCell(ToNumber(tok))

DataFrame(lines) ==
    LET dts == [c \in 1..NCols |-> infer_dtype(lines, c)]
    IN [kind |-> "DataFrame",
        dtypes |-> dts,
        rows |-> [i \in 1..Len(lines) |->
                    [c \in 1..NCols |-> parse_cell(lines[i][c], dts[c])]]]

\* pd.read_csv(self.file_path): the exception it raises ("" for none) and
\* the frame it returns.
read_csv(f) ==
    CASE f.kind = "absent"    -> [exc |-> "FileNotFoundError", df |-> None]
      [] f.kind = "empty"     -> [exc |-> "EmptyDataError", df |-> None]
      [] f.kind = "malformed" -> [exc |-> "ParserError", df |-> None]
      [] f.kind = "denied"    -> [exc |-> "PermissionError", df |-> None]
      [] OTHER                -> [exc |-> "", df |-> DataFrame(f.lines)]

\* ------------------------------------------------------------- messages

\* One print() call: its text, the exception it formats, the numbers it shows.
Msg(text) == [text |-> text, e |-> "", counts |-> <<>>]
MsgE(text, e) == [text |-> text, e |-> e, counts |-> <<>>]
MsgN(text, counts) == [text |-> text, e |-> "", counts |-> counts]

\* What a method call does: the object's fields after it, what it printed,
\* and the exception that leaves it ("" when it returns).
Outcome(d, sc, msgs, e) == [data |-> d, scaler |-> sc, out |-> msgs, exc |-> e]

\* ---------------------------------------------------------------- scaler

\* StandardScaler() before any fit.
Unfitted == [fitted |-> FALSE, stats |-> <<>>]

\* ------------------------------------------------------------ load_data

\* load_data with the three handlers printing but not re-raising.
load_data_swallow(d, sc, f) ==
    LET r == read_csv(f)
    IN CASE r.exc = "" ->
              Outcome(r.df, sc, <<Msg("Data loaded successfully.")>>, "")
         [] r.exc = "FileNotFoundError" ->
              Outcome(d, sc, <<MsgE("Error: ", r.exc)>>, "")
         [] r.exc = "EmptyDataError" ->
              Outcome(d, sc,
                      <<Msg("Error: No data found at the specified path.")>>, "")
         [] r.exc = "ParserError" ->
              Outcome(d, sc, <<MsgE("Error parsing data: ", r.exc)>>, "")
         [] OTHER -> Outcome(d, sc, <<>>, r.exc)

\* load_data with the FileNotFoundError handler re-raising without printing.
load_data_quiet(d, sc, f) ==
    LET r == read_csv(f)
    IN CASE r.exc = "" ->
              Outcome(r.df, sc, <<Msg("Data loaded successfully.")>>, "")
         [] r.exc = "EmptyDataError" ->
              Outcome(d, sc,
                      <<Msg("Error: No data found at the specified path.")>>,
                      r.exc)
         [] r.exc = "ParserError" ->
              Outcome(d, sc, <<MsgE("Error parsing data: ", r.exc)>>, r.exc)
         [] OTHER -> Outcome(d, sc, <<>>, r.exc)

\* load_data: read the file into self.data and confirm, or print the
\* diagnostic of one of the three handled exceptions and re-raise it. Any
\* other exception of read_csv has no handler and leaves the method as it is.
load_data(d, sc, f) ==
    LET r == read_csv(f)
    IN CASE r.exc = "" ->
              Outcome(r.df, sc, <<Msg("Data loaded successfully.")>>, "")
         [] r.exc = "FileNotFoundError" ->
              Outcome(d, sc, <<MsgE("Error: ", r.exc)>>, r.exc)
         [] r.exc = "EmptyDataError" ->
              Outcome(d, sc,
                      <<Msg("Error: No data found at the specified path.")>>,
                      r.exc)
         [] r.exc = "ParserError" ->
              Outcome(d, sc, <<MsgE("Error parsing data: ", r.exc)>>, r.exc)
         [] OTHER -> Outcome(d, sc, <<>>, r.exc)

\* ------------------------------------------------- check_missing_values

\* Number of True cells of column c of df.isnull(), rows 1..n.
RECURSIVE null_count(_, _, _)
null_count(rows, c, n) ==
    IF n = 0 THEN 0
    ELSE null_count(rows, c, n - 1) + (IF rows[n][c].k = "nan" THEN 1 ELSE 0)

\* isnull().sum() taken along the wrong axis: per column, the number of rows
\* that hold a missing cell anywhere.
isnull_sum_by_row(df) ==
    [c \in 1..Len(df.dtypes) |->
        Cardinality({i \in 1..Len(df.rows) :
                        \E c2 \in 1..Len(df.dtypes) : df.rows[i][c2].k = "nan"})]

\* self.data.isnull().sum(): the Series of per-column counts.
isnull_sum(df) == [c \in 1..Len(df.dtypes) |-> null_count(df.rows, c, Len(df.rows))]

\* Series.sum()
RECURSIVE series_sum(_, _)
series_sum(ser, n) == IF n = 0 THEN 0 ELSE series_sum(ser, n - 1) + ser[n]

check_missing_values(d, sc) ==
    IF d = None
    THEN Outcome(d, sc,
                 <<MsgE("Error checking missing values: ", "AttributeError")>>, "")
    ELSE LET ser == isnull_sum(d)
         IN IF series_sum(ser, Len(ser)) > 0
            THEN Outcome(d, sc,
                         <<Msg("Warning: Missing values detected."),
                           MsgN("isnull().sum()", ser)>>, "")
            ELSE Outcome(d, sc, <<Msg("No missing values detected.")>>, "")

\* ----------------------------------------------------- check_duplicates

\* DataFrame.duplicated() (keep='first'): scanning the rows in order with the
\* set of rows seen so far, a row is marked when it is already in the set.
\* Missing cells compare equal to each other.
RECURSIVE duplicated_scan(_, _, _, _)
duplicated_scan(rows, i, seen, marks) ==
    IF i > Len(rows) THEN marks
    ELSE duplicated_scan(rows, i + 1, seen \cup {rows[i]},
                         Append(marks, rows[i] \in seen))

\* duplicated(keep=False): every member of a group of equal rows is marked.
duplicated_keep_false(df) ==
    [i \in 1..Len(df.rows) |->
        \E j \in 1..Len(df.rows) : j # i /\ df.rows[j] = df.rows[i]]

duplicated(df) == duplicated_scan(df.rows, 1, {}, <<>>)

\* Series.any() and Series.sum() of a Boolean Series.
bool_any(marks) == \E i \in 1..Len(marks) : marks[i]

RECURSIVE bool_sum(_, _)
bool_sum(marks, n) ==
    IF n = 0 THEN 0 ELSE bool_sum(marks, n - 1) + (IF marks[n] THEN 1 ELSE 0)

\* check_duplicates without its try/except.
check_duplicates_unguarded(d, sc) ==
    IF d = None THEN Outcome(d, sc, <<>>, "AttributeError")
    ELSE LET marks == duplicated(d)
         IN IF bool_any(marks)
            THEN Outcome(d, sc,
                         <<Msg("Warning: Duplicate records detected."),
                           MsgN("Number of duplicates: ",
                                <<bool_sum(marks, Len(marks))>>)>>, "")
            ELSE Outcome(d, sc, <<Msg("No duplicate records detected.")>>, "")

check_duplicates(d, sc) ==
    IF d = None
    THEN Outcome(d, sc,
                 <<MsgE("Error checking duplicates: ", "AttributeError")>>, "")
    ELSE LET marks == duplicated(d)
         IN IF bool_any(marks)
            THEN Outcome(d, sc,
                         <<Msg("Warning: Duplicate records detected."),
                           MsgN("Number of duplicates: ",
                                <<bool_sum(marks, Len(marks))>>)>>, "")
            ELSE Outcome(d, sc, <<Msg("No duplicate records detected.")>>, "")

\* ------------------------------------------------------- check_outliers

IsNumeric(dtype) == dtype \in {"int64", "float64"}

\* The indices of the columns select_dtypes(include=[np.number]) keeps.
numeric_columns(df) == {c \in 1..Len(df.dtypes) : IsNumeric(df.dtypes[c])}

\* The c-th smallest element of a set of column indices, c = 1, 2, ...
RECURSIVE nth_column(_, _)
nth_column(cols, c) ==
    LET m == CHOOSE x \in cols : \A y \in cols : x <= y
    IN IF c = 1 THEN m ELSE nth_column(cols \ {m}, c - 1)

\* numeric_data = self.data.select_dtypes(include=[np.number]): a new frame
\* holding the numeric columns, in their order.
select_dtypes(df) ==
    LET cols == numeric_columns(df)
        k == Cardinality(cols)
    IN [kind |-> "DataFrame",
        dtypes |-> [c \in 1..k |-> df.dtypes[nth_column(cols, c)]],
        rows |-> [i \in 1..Len(df.rows) |->
                    [c \in 1..k |-> df.rows[i][nth_column(cols, c)]]]]

\* StandardScaler.fit statistics of column c over its non-missing cells,
\* rows 1..n: how many, their sum, the sum of their squares. They stand for
\* mean_ = sum/n and var_ = (n*sumsq - sum^2)/n^2.
RECURSIVE column_stats(_, _, _)
column_stats(rows, c, n) ==
    IF n = 0 THEN [n |-> 0, sum |-> 0, sumsq |-> 0]
    ELSE LET st == column_stats(rows, c, n - 1)
             x == rows[n][c]
         IN IF x.k = "nan" THEN st
            ELSE [n |-> st.n + 1, sum |-> st.sum + x.v,
                  sumsq |-> st.sumsq + x.v * x.v]

\* StandardScaler.transform of one cell: (x - mean_) / scale_, kept exact as
\* num / sqrt(den) with num = n*x - sum and den = n*sumsq - sum^2. A column
\* of zero variance has scale_ = 1 and every cell at its mean: 0. A missing
\* cell stays missing.
scale_cell(x, st) ==
    IF x.k = "nan" THEN [nan |-> TRUE, num |-> 0, den |-> 1]
    ELSE IF st.n * st.sumsq - st.sum * st.sum = 0
         THEN [nan |-> FALSE, num |-> 0, den |-> 1]
    ELSE [nan |-> FALSE, num |-> st.n * x.v - st.sum,
          den |-> st.n * st.sumsq - st.sum * st.sum]

\* scaled_data = self.scaler.fit_transform(numeric_data): raises ValueError
\* on a frame with no column (or no row), leaving the scaler without fitted
\* statistics; otherwise fits the scaler and returns a new array.
fit_transform(sc, X) ==
    IF Len(X.dtypes) = 0 \/ Len(X.rows) = 0
    THEN [exc |-> "ValueError", scaler |-> Unfitted, scaled |-> <<>>]
    ELSE LET stats == [c \in 1..Len(X.dtypes) |->
                          column_stats(X.rows, c, Len(X.rows))]
         IN [exc |-> "", scaler |-> [fitted |-> TRUE, stats |-> stats],
             scaled |-> [i \in 1..Len(X.rows) |->
                           [c \in 1..Len(X.dtypes) |->
                              scale_cell(X.rows[i][c], stats[c])]]]

has_nan(scaled) ==
    \E i \in 1..Len(scaled) : \E c \in 1..Len(scaled[i]) : scaled[i][c].nan

\* The anomaly scores a fitted forest can give the rows it was fitted on: one
\* score per row, the same for rows with the same features (the forest is a
\* deterministic function of the features once fitted with random_state=42).
PossibleScores(scaled) ==
    {sv \in [1..Len(scaled) -> ScoreLevels] :
        \A i, j \in 1..Len(scaled) : scaled[i] = scaled[j] => sv[i] = sv[j]}

\* np.sort
RECURSIVE sort_insert(_, _)
sort_insert(sorted, x) ==
    IF Len(sorted) = 0 THEN <<x>>
    ELSE IF x <= Head(sorted) THEN <<x>> \o sorted
    ELSE <<Head(sorted)>> \o sort_insert(Tail(sorted), x)

RECURSIVE np_sort(_, _)
np_sort(sv, n) == IF n = 0 THEN <<>> ELSE sort_insert(np_sort(sv, n - 1), sv[n])

\* offset_ = np.percentile(scores, 100 * contamination), times 100: linear
\* interpolation between the sorted scores around position q*(R-1)/100.
percentile100(sv, q) ==
    LET srt == np_sort(sv, Len(sv))
        pos == q * (Len(sv) - 1)
        lo  == (pos \div 100) + 1
        rem == pos % 100
    IN IF rem = 0 THEN 100 * srt[lo]
       ELSE 100 * srt[lo] + rem * (srt[lo + 1] - srt[lo])

\* predict flagging the rows at the threshold too (<= instead of <).
predict_inclusive(sv) ==
    LET off == percentile100(sv, ContaminationPct)
    IN [i \in 1..Len(sv) |-> IF 100 * sv[i] <= off THEN -1 ELSE 1]

\* model.predict(scaled_data): -1 where decision_function = score - offset_
\* is negative, 1 elsewhere.
predict(sv) ==
    LET off == percentile100(sv, ContaminationPct)
    IN [i \in 1..Len(sv) |-> IF 100 * sv[i] < off THEN -1 ELSE 1]

\* np.sum(outliers == -1)
RECURSIVE count_outliers(_, _)
count_outliers(pred, n) ==
    IF n = 0 THEN 0
    ELSE count_outliers(pred, n - 1) + (IF pred[n] = -1 THEN 1 ELSE 0)

\* The report with the test num_outliers >= 0.
outlier_report_always(pred) ==
    <<MsgN("Outliers detected: ", <<count_outliers(pred, Len(pred))>>)>>

\* What check_outliers prints for a prediction.
outlier_report(pred) ==
    LET num_outliers == count_outliers(pred, Len(pred))
    IN IF num_outliers > 0
       THEN <<MsgN("Outliers detected: ", <<num_outliers>>)>>
       ELSE <<Msg("No outliers detected.")>>

OutlierError(e) == <<MsgE("Error during outlier detection: ", e)>>

\* check_outliers without its try/except: the exception leaves the method.
check_outliers_unguarded(d, sc, sv, nanOK) ==
    IF d = None
    THEN [data |-> d, scaler |-> sc, out |-> <<>>,
          exc |-> "AttributeError", outliers |-> <<>>]
    ELSE LET numeric_data == select_dtypes(d)
             ft == fit_transform(sc, numeric_data)
         IN IF ft.exc # ""
            THEN [data |-> d, scaler |-> ft.scaler, out |-> <<>>,
                  exc |-> ft.exc, outliers |-> <<>>]
            ELSE IF has_nan(ft.scaled) /\ ~nanOK
            THEN [data |-> d, scaler |-> ft.scaler, out |-> <<>>,
                  exc |-> "ValueError", outliers |-> <<>>]
            ELSE [data |-> d, scaler |-> ft.scaler,
                  out |-> outlier_report(predict(sv)),
                  exc |-> "", outliers |-> predict(sv)]

\* The table with the scaled values written back into its numeric columns
\* (a scaler applied in place on a view of self.data).
write_back(d, scaled) ==
    [d EXCEPT !.rows =
        [i \in 1..Len(d.rows) |->
            [c \in 1..Len(d.dtypes) |->
                IF IsNumeric(d.dtypes[c]) /\ d.rows[i][c].k # "nan"
                THEN NumCell(scaled[i][Cardinality({c2 \in numeric_columns(d) :
                                                      c2 <= c})].num)
                ELSE d.rows[i][c]]]]

\* check_outliers standardizing self.data in place.
check_outliers_inplace(d, sc, sv, nanOK) ==
    IF d = None
    THEN [data |-> d, scaler |-> sc, out |-> OutlierError("AttributeError"),
          exc |-> "", outliers |-> <<>>]
    ELSE LET numeric_data == select_dtypes(d)
             ft == fit_transform(sc, numeric_data)
         IN IF ft.exc # ""
            THEN [data |-> d, scaler |-> ft.scaler, out |-> OutlierError(ft.exc),
                  exc |-> "", outliers |-> <<>>]
            ELSE IF has_nan(ft.scaled) /\ ~nanOK
            THEN [data |-> write_back(d, ft.scaled), scaler |-> ft.scaler,
                  out |-> OutlierError("ValueError"),
                  exc |-> "", outliers |-> <<>>]
            ELSE [data |-> write_back(d, ft.scaled), scaler |-> ft.scaler,
                  out |-> outlier_report(predict(sv)),
                  exc |-> "", outliers |-> predict(sv)]

\* check_outliers, given the scores sv the forest gives the rows and whether
\* the installed IsolationForest accepts missing values (nanOK). The last
\* field is the local `outliers` (empty when predict was not reached).
check_outliers(d, sc, sv, nanOK) ==
    IF d = None
    THEN [data |-> d, scaler |-> sc, out |-> OutlierError("AttributeError"),
          exc |-> "", outliers |-> <<>>]
    ELSE LET numeric_data == select_dtypes(d)
             ft == fit_transform(sc, numeric_data)
         IN IF ft.exc # ""
            THEN [data |-> d, scaler |-> ft.scaler, out |-> OutlierError(ft.exc),
                  exc |-> "", outliers |-> <<>>]
            ELSE IF has_nan(ft.scaled) /\ ~nanOK
            THEN [data |-> d, scaler |-> ft.scaler,
                  out |-> OutlierError("ValueError"),
                  exc |-> "", outliers |-> <<>>]
            ELSE [data |-> d, scaler |-> ft.scaler,
                  out |-> outlier_report(predict(sv)),
                  exc |-> "", outliers |-> predict(sv)]

\* The score vectors to consider for a call of check_outliers on d.
ScoresFor(d) ==
    IF d = None THEN {<<>>} ELSE PossibleScores(fit_transform(Unfitted, select_dtypes(d)).scaled)

\* --------------------------------------------------------------- state

VARIABLES
    file,      \* what self.file_path leads to
    data,      \* self.data
    scaler,    \* self.scaler
    out,       \* the lines printed so far
    trace,     \* the methods called so far, in order
    pc,        \* "run_checks", "raised", "exit" (the script); "api" (a client)
    ip,        \* the statement of run_checks to execute next
    raised,    \* the exception that left the last method called ("" for none)
    outliers   \* the local `outliers` of the last check_outliers

vars == <<file, data, scaler, out, trace, pc, ip, raised, outliers>>

\* run_checks with the first two statements exchanged.
run_checks_check_first ==
    <<"check_missing_values", "load_data", "check_duplicates", "check_outliers">>

\* The statements of run_checks, in order.
run_checks ==
    <<"load_data", "check_missing_values", "check_duplicates", "check_outliers">>

\* DataIntegrityChecker(file_path), then the script enters run_checks.
Constructed(start) ==
    /\ data = None
    /\ scaler = Unfitted
    /\ out = <<>>
    /\ trace = <<>>
    /\ pc = start
    /\ ip = 1
    /\ raised = ""
    /\ outliers = <<>>

Init == IsFile(file, MaxRows) /\ Constructed("run_checks")

\* The effect of one method call on the object and the output.
Effect(name, r) ==
    /\ data' = r.data
    /\ scaler' = r.scaler
    /\ out' = out \o r.out
    /\ trace' = Append(trace, name)
    /\ raised' = r.exc
    /\ UNCHANGED file

\* One statement of run_checks: an exception leaves run_checks, otherwise the
\* next statement follows, and run_checks returns after the last.
Statement(name, r) ==
    /\ pc = "run_checks"
    /\ run_checks[ip] = name
    /\ Effect(name, r)
    /\ IF r.exc # "" THEN pc' = "raised" /\ ip' = ip
       ELSE IF ip = Len(run_checks) THEN pc' = "exit" /\ ip' = ip
       ELSE pc' = pc /\ ip' = ip + 1

Load ==
    /\ Statement("load_data", load_data(data, scaler, file))
    /\ UNCHANGED outliers

CheckMissing ==
    /\ Statement("check_missing_values", check_missing_values(data, scaler))
    /\ UNCHANGED outliers

CheckDuplicates ==
    /\ Statement("check_duplicates", check_duplicates(data, scaler))
    /\ UNCHANGED outliers

CheckOutliers ==
    \E sv \in ScoresFor(data), nanOK \in BOOLEAN :
        LET r == check_outliers(data, scaler, sv, nanOK)
        IN /\ Statement("check_outliers", r)
           /\ outliers' = r.outliers

\* __main__: except Exception as e: print(...)
MainExcept ==
    /\ pc = "raised"
    /\ out' = Append(out,
          MsgE("An error occurred while running data integrity checks: ", raised))
    /\ pc' = "exit"
    /\ UNCHANGED <<file, data, scaler, trace, ip, raised, outliers>>

Next == Load \/ CheckMissing \/ CheckDuplicates \/ CheckOutliers \/ MainExcept

Spec == Init /\ [][Next]_vars

\* ------------------------------------------------- the end-to-end example

\* The rows of df that are exact copies of an earlier row.
CopyRows(df) ==
    {i \in 1..Len(df.rows) :
        \E j \in 1..(i - 1) :
            \A c \in 1..Len(df.dtypes) : df.rows[j][c] = df.rows[i][c]}

\* The missing cells of column c of df.
MissingCells(df, c) == {i \in 1..Len(df.rows) : df.rows[i][c] = NaN}

AllMissingCells(df) ==
    {ic \in (1..Len(df.rows)) \X (1..Len(df.dtypes)) : df.rows[ic[1]][ic[2]] = NaN}

\* The tables of the end-to-end example: ExampleRows rows, two columns, one
\* row fully duplicated, one missing cell.
IsExample(df) ==
    /\ df.kind = "DataFrame"
    /\ Len(df.rows) = ExampleRows
    /\ Len(df.dtypes) = 2
    /\ Cardinality(CopyRows(df)) = 1
    /\ Cardinality(AllMissingCells(df)) = 1

\* The script run on an example table, or on a path that cannot be read.
InitE2E ==
    /\ \/ \E kd \in FailureKinds : file = FailFile(kd)
       \/ \E rows \in [1..ExampleRows -> FileRows] :
             /\ IsExample(DataFrame(rows))
             /\ file = CsvFile(rows)
    /\ Constructed("run_checks")

SpecE2E == InitE2E /\ [][Next]_vars

\* ------------------------------------------------------------- a client

InitAPI == IsFile(file, MaxApiRows) /\ Constructed("api")

\* A client calls a method of the checker; it catches what the method raises.
Call(name, r) ==
    /\ pc = "api"
    /\ Len(trace) < MaxCalls
    /\ Effect(name, r)
    /\ UNCHANGED <<pc, ip>>

ApiLoad ==
    /\ Call("load_data", load_data(data, scaler, file))
    /\ UNCHANGED outliers

ApiCheckMissing ==
    /\ Call("check_missing_values", check_missing_values(data, scaler))
    /\ UNCHANGED outliers

ApiCheckDuplicates ==
    /\ Call("check_duplicates", check_duplicates(data, scaler))
    /\ UNCHANGED outliers

ApiCheckOutliers ==
    \E sv \in ScoresFor(data), nanOK \in BOOLEAN :
        LET r == check_outliers(data, scaler, sv, nanOK)
        IN /\ Call("check_outliers", r)
           /\ outliers' = r.outliers

NextAPI == ApiLoad \/ ApiCheckMissing \/ ApiCheckDuplicates \/ ApiCheckOutliers

SpecAPI == InitAPI /\ [][NextAPI]_vars

\* ================================================================ claims

Last(sq) == sq[Len(sq)]

Emitted(text) == \E i \in 1..Len(out) : out[i].text = text

\* Message m2 was printed right after message m1.
EmittedPair(m1, m2) ==
    \E i \in 1..(Len(out) - 1) : out[i] = m1 /\ out[i + 1] = m2

TimesCalled(name) == Cardinality({i \in 1..Len(trace) : trace[i] = name})

ExpectedOrder ==
    <<"load_data", "check_missing_values", "check_duplicates", "check_outliers">>

Checks == {"check_missing_values", "check_duplicates", "check_outliers"}

TopLevelMsg(e) ==
    MsgE("An error occurred while running data integrity checks: ", e)

\* C1: in a run of run_checks the methods called so far are always an initial
\* part of load_data, check_missing_values, check_duplicates, check_outliers
\* (so each at most once, in that order); a check is called only once the load
\* has completed and stored the table; and a run whose load succeeded ends
\* with all four called exactly once.
C1_FixedOrder ==
    /\ Len(trace) <= Len(ExpectedOrder)
    /\ \A i \in 1..Len(trace) : i <= Len(ExpectedOrder) /\ trace[i] = ExpectedOrder[i]
    /\ TimesCalled("load_data") <= 1
    /\ (\E i \in 1..Len(trace) : trace[i] \in Checks)
          => /\ trace[1] = "load_data"
             /\ data # None
             /\ out[1] = Msg("Data loaded successfully.")
    /\ (pc = "exit" /\ data # None)
          => /\ trace = ExpectedOrder
             /\ \A m \in Checks \cup {"load_data"} : TimesCalled(m) = 1

C1_Witness == pc = "exit" /\ data # None /\ trace = ExpectedOrder

HandledKinds == {"absent", "empty", "malformed"}

ExceptionOf(kind) ==
    CASE kind = "absent" -> "FileNotFoundError"
      [] kind = "empty" -> "EmptyDataError"
      [] kind = "malformed" -> "ParserError"
      [] OTHER -> "PermissionError"

DiagnosticOf(kind) ==
    CASE kind = "absent" -> MsgE("Error: ", "FileNotFoundError")
      [] kind = "empty" -> Msg("Error: No data found at the specified path.")
      [] OTHER -> MsgE("Error parsing data: ", "ParserError")

\* C2: when the file is missing, empty or unparsable, load_data prints its
\* diagnostic and raises; the exception leaves run_checks, the top-level
\* handler prints its message, and no check is ever called.
C2_LoadFailureIsFatal ==
    (file.kind \in HandledKinds /\ Len(trace) >= 1)
        => /\ trace = <<"load_data">>
           /\ data = None
           /\ raised = ExceptionOf(file.kind)
           /\ pc \in {"raised", "exit"}
           /\ pc = "raised" => out = <<DiagnosticOf(file.kind)>>
           /\ pc = "exit" => out = <<DiagnosticOf(file.kind), TopLevelMsg(raised)>>

C2_Witness ==
    /\ file.kind = "empty"
    /\ pc = "exit"
    /\ out = <<DiagnosticOf("empty"), TopLevelMsg("EmptyDataError")>>

MissingReport ==
    {"Warning: Missing values detected.", "No missing values detected.",
     "Error checking missing values: "}

DuplicateReport ==
    {"Warning: Duplicate records detected.", "No duplicate records detected.",
     "Error checking duplicates: "}

OutlierReport ==
    {"Outliers detected: ", "No outliers detected.",
     "Error during outlier detection: "}

NoNumericColumn(df) ==
    \A c \in 1..Len(df.dtypes) : df.dtypes[c] = "object"

\* C3: after a successful load no exception ever leaves a check: the run goes
\* on to the next check and ends with all three attempted and each having
\* printed its report or its error message. In particular, on a table with no
\* numeric column the outlier check ends with its error message, after the
\* duplicate report, and the run still ends normally.
C3_CheckErrorsAreContained ==
    data # None
        => /\ raised = ""
           /\ pc \in {"run_checks", "exit"}
           /\ ~Emitted(TopLevelMsg("").text)
           /\ pc = "exit"
                => /\ \A m \in Checks : TimesCalled(m) = 1
                   /\ \E i, j, k \in 1..Len(out) :
                         /\ i < j /\ j < k /\ k = Len(out)
                         /\ out[i].text \in MissingReport
                         /\ out[j].text \in DuplicateReport
                         /\ out[k].text \in OutlierReport
                   /\ NoNumericColumn(data)
                        => Last(out) = MsgE("Error during outlier detection: ",
                                            "ValueError")

C3_Witness ==
    /\ pc = "exit"
    /\ data # None
    /\ Len(data.rows) >= 2
    /\ NoNumericColumn(data)
    /\ raised = ""
    /\ Emitted("Warning: Duplicate records detected.")
    /\ Last(out) = MsgE("Error during outlier detection: ", "ValueError")

\* C4 as claimed: once load_data has been called, either the table is stored
\* and the confirmation printed, or load_data printed a diagnostic and raised
\* one of FileNotFoundError, EmptyDataError, ParserError.
C4_Original ==
    Len(trace) >= 1
        => \/ /\ data # None
              /\ Len(out) >= 1 /\ out[1] = Msg("Data loaded successfully.")
           \/ /\ data = None
              /\ raised \in {"FileNotFoundError", "EmptyDataError", "ParserError"}
              /\ Len(out) >= 1
              /\ out[1].text \in {"Error: ", "Error parsing data: ",
                                   "Error: No data found at the specified path."}

\* C4 as amended: load_data has three kinds of outcome. It stores the table
\* and prints the confirmation; or it prints its diagnostic and raises one of
\* the three handled exceptions; or read_csv raises another exception, which
\* leaves load_data with nothing printed by it (the only message is then the
\* top-level handler's).
C4_LoadOutcomes ==
    Len(trace) >= 1
        => \/ /\ file.kind = "csv"
              /\ data = DataFrame(file.lines)
              /\ Len(out) >= 1 /\ out[1] = Msg("Data loaded successfully.")
           \/ /\ file.kind \in HandledKinds
              /\ data = None
              /\ raised = ExceptionOf(file.kind)
              /\ Len(out) >= 1 /\ out[1] = DiagnosticOf(file.kind)
           \/ /\ file.kind \notin HandledKinds \cup {"csv"}
              /\ data = None
              /\ raised \notin {"", "FileNotFoundError", "EmptyDataError",
                                "ParserError"}
              /\ out = IF pc = "exit" THEN <<TopLevelMsg(raised)>> ELSE <<>>

C4_Witness ==
    /\ file.kind = "denied"
    /\ trace = <<"load_data">>
    /\ pc = "raised"
    /\ raised = "PermissionError"
    /\ out = <<>>

\* C5: once check_duplicates has run on a table with d rows that are exact
\* copies of an earlier row, it has printed the duplicate warning followed by
\* the count d when d > 0, and only the all-clear message when d = 0.
C5_DuplicateCount ==
    (data # None /\ TimesCalled("check_duplicates") = 1)
        => LET d == Cardinality(CopyRows(data))
           IN IF d > 0
              THEN /\ EmittedPair(Msg("Warning: Duplicate records detected."),
                                  MsgN("Number of duplicates: ", <<d>>))
                   /\ ~Emitted("No duplicate records detected.")
              ELSE /\ Emitted("No duplicate records detected.")
                   /\ ~Emitted("Warning: Duplicate records detected.")
                   /\ ~Emitted("Number of duplicates: ")

C5_Witness ==
    /\ data # None
    /\ TimesCalled("check_duplicates") = 1
    /\ Cardinality(CopyRows(data)) = 2
    /\ Emitted("Warning: Duplicate records detected.")

\* C6: once check_missing_values has run on a table, the warning and the
\* per-column counts have been printed if and only if the table has a missing
\* cell, the count under each column is the number of missing cells of that
\* column, and a table with no missing cell gets only the all-clear message.
C6_MissingCounts ==
    (data # None /\ TimesCalled("check_missing_values") = 1)
        => LET total == Cardinality(AllMissingCells(data))
               counts == [c \in 1..Len(data.dtypes) |->
                             Cardinality(MissingCells(data, c))]
           IN /\ Emitted("Warning: Missing values detected.") <=> total > 0
              /\ Emitted("isnull().sum()") <=> total > 0
              /\ Emitted("No missing values detected.") <=> total = 0
              /\ total > 0
                   => EmittedPair(Msg("Warning: Missing values detected."),
                                  MsgN("isnull().sum()", counts))

C6_Witness ==
    /\ data # None
    /\ TimesCalled("check_missing_values") = 1
    /\ Cardinality(MissingCells(data, 1)) = 2
    /\ Cardinality(MissingCells(data, 2)) = 1
    /\ Emitted("isnull().sum()")

\* C7: a step that calls a check on a loaded table leaves the table as it
\* was, whatever the check prints; and it leaves the scaler as it was unless
\* the check is check_outliers.
C7_ChecksKeepTable ==
    [][(data # None /\ Len(trace') = Len(trace) + 1 /\ Last(trace') \in Checks)
          => /\ data' = data
             /\ Last(trace') # "check_outliers" => scaler' = scaler]_vars

\* The outlier check has standardized a column of non-zero variance and the
\* table still is what was loaded.
C7_Witness ==
    /\ TimesCalled("check_outliers") = 1
    /\ scaler.fitted
    /\ \E c \in 1..Len(scaler.stats) :
          scaler.stats[c].n * scaler.stats[c].sumsq
              # scaler.stats[c].sum * scaler.stats[c].sum
    /\ data = DataFrame(file.lines)

DetectionCompleted ==
    /\ data # None
    /\ TimesCalled("check_outliers") = 1
    /\ Last(out).text # "Error during outlier detection: "

Flagged == {i \in 1..Len(outliers) : outliers[i] = -1}

\* C8: when outlier detection completes on a table of R rows, one label per
\* row was predicted, the number of rows flagged is between 0 and R, and the
\* last line printed is the outlier count if that number is not zero and the
\* all-clear message if it is.
C8_OutlierCount ==
    DetectionCompleted
        => /\ Len(outliers) = Len(data.rows)
           /\ Cardinality(Flagged) >= 0
           /\ Cardinality(Flagged) <= Len(data.rows)
           /\ IF Cardinality(Flagged) # 0
              THEN Last(out) = MsgN("Outliers detected: ", <<Cardinality(Flagged)>>)
              ELSE Last(out) = Msg("No outliers detected.")

C8_Witness ==
    /\ DetectionCompleted
    /\ Cardinality(Flagged) = 1
    /\ Len(data.rows) = 3
    /\ Last(out) = MsgN("Outliers detected: ", <<1>>)

ExampleReports ==
    /\ \E ser \in {<<1, 0>>, <<0, 1>>} :
          EmittedPair(Msg("Warning: Missing values detected."),
                      MsgN("isnull().sum()", ser))
    /\ EmittedPair(Msg("Warning: Duplicate records detected."),
                   MsgN("Number of duplicates: ", <<1>>))

\* C9 as claimed: the run on an example table ends having printed the missing
\* warning with counts that add up to 1, the duplicate warning with count 1,
\* and the outlier all-clear (0 outliers, no error message).
C9_Original ==
    (pc = "exit" /\ IsExample(data))
        => /\ ExampleReports
           /\ Last(out) = Msg("No outliers detected.")

MissingInNumericColumn(df) ==
    \E c \in 1..Len(df.dtypes) :
        df.dtypes[c] # "object" /\ MissingCells(df, c) # {}

\* C9 as amended: the run on an example table ends having printed the missing
\* warning citing 1 cell and the duplicate warning citing 1 duplicate; its
\* last line is the outlier all-clear, or "Outliers detected: 1", or the
\* outlier check's error message. The error message is printed when the table
\* has no numeric column, and otherwise only when the missing cell lies in a
\* numeric column.
C9_ExampleRun ==
    (pc = "exit" /\ IsExample(data))
        => /\ ExampleReports
           /\ Last(out) \in {Msg("No outliers detected."),
                             MsgN("Outliers detected: ", <<1>>),
                             MsgE("Error during outlier detection: ", "ValueError")}
           /\ NoNumericColumn(data)
                => Last(out).text = "Error during outlier detection: "
           /\ Last(out).text = "Error during outlier detection: "
                => NoNumericColumn(data) \/ MissingInNumericColumn(data)

C9_Witness ==
    /\ pc = "exit"
    /\ IsExample(data)
    /\ ExampleReports
    /\ Last(out) = MsgN("Outliers detected: ", <<1>>)

CheckErrorText(name) ==
    CASE name = "check_missing_values" -> "Error checking missing values: "
      [] name = "check_duplicates" -> "Error checking duplicates: "
      [] OTHER -> "Error during outlier detection: "

\* C10: a check called while no table is loaded returns normally, prints that
\* check's error message and leaves data None; and a load_data that raises
\* leaves data as it was.
C10_ChecksWithoutTable ==
    [][(Len(trace') = Len(trace) + 1)
          => /\ (data = None /\ Last(trace') \in Checks)
                  => /\ data' = None
                     /\ raised' = ""
                     /\ out' = Append(out, MsgE(CheckErrorText(Last(trace')),
                                                "AttributeError"))
             /\ (Last(trace') = "load_data" /\ raised' # "")
                  => data' = data /\ data' = None]_vars

\* A check called after a load_data that failed.
C10_Witness ==
    /\ trace = <<"load_data", "check_duplicates">>
    /\ file.kind = "absent"
    /\ data = None
    /\ raised = ""
    /\ Last(out) = MsgE("Error checking duplicates: ", "AttributeError")

====
